---- MODULE Spec2Model ----
(***************************************************************************)
(* ZeusChat relay server: socket handlers of src/server.js and of the      *)
(* earlier variant src/unnamed/part_000.  Every handler is an async        *)
(* function; it runs synchronously up to an `await pool.query(...)` and    *)
(* other socket events are served while the query is pending.  A handler   *)
(* invocation is therefore a task with a program counter naming the query  *)
(* it awaits; one step of a task executes that query against the store     *)
(* (or lets it throw) and runs the continuation to the next await.         *)
(***************************************************************************)
EXTENDS Integers, Sequences, FiniteSets, TLC

\* ---- bounds of the model ----
MaxTasks == 2       \* handler invocations in flight at the same time
MaxTime == 2        \* clock ticks
MaxEvents == 3      \* socket events received in one behaviour

\* ---- program constant: OTP lifetime (10 minutes, scaled to clock ticks) ----
OtpTtl == 2

Sockets == {1, 2}
Pins == {"ZT-1", "ZT-2"}
Emails == {"a@x", "b@x"}
Otps == {"111111", "222222"}
Names == {"n"}
Contents == {"m1", "m2"}
Ttls == {30}

NoSocket == 0       \* activeUsers.get(pin) === undefined
NoName == "NULL"    \* SQL NULL in users.name

Slots == 1..MaxTasks
Idle == [op |-> "idle"]

VARIABLES
  impl,         \* which source file runs: "server" or "part0"
  schema,       \* unique constraints of the deployed database
  now,          \* clock (Date.now() / NOW())
  sock,         \* socket id -> "new" | "open" | "closed"
  activeUsers,  \* the Map zeusPin -> socket.id, in insertion order
  otp_requests, \* table otp_requests
  users,        \* table users
  invites,      \* table invites, in insertion order
  friendships,  \* table friendships, in insertion order
  messages,     \* table messages, in insertion order (id = position)
  tasks,        \* handler invocations in flight
  emitted,      \* events emitted by the last step
  nEvents,      \* socket events received so far
  nSent,        \* number of messageSent acknowledgements emitted so far
  superseded    \* history: <<pin, socket>> whose entry another socket's register replaced

vars == <<impl, schema, now, sock, activeUsers, otp_requests, users, invites,
          friendships, messages, tasks, emitted, nEvents, nSent, superseded>>

db == <<otp_requests, users, invites, friendships, messages>>

\* ---- the Map activeUsers ----
MapHas(m, k) == \E i \in 1..Len(m) : m[i].pin = k

MapGet(m, k) ==
  IF MapHas(m, k) THEN (CHOOSE e \in {m[i] : i \in 1..Len(m)} : e.pin = k).id
  ELSE NoSocket

MapSetIfAbsent(m, k, v) ==
  IF MapHas(m, k) THEN m ELSE Append(m, [pin |-> k, id |-> v])

MapSet(m, k, v) ==
  IF MapHas(m, k)
  THEN [i \in 1..Len(m) |-> IF m[i].pin = k THEN [pin |-> k, id |-> v] ELSE m[i]]
  ELSE Append(m, [pin |-> k, id |-> v])

RemoveAt(s, i) == [j \in 1..(Len(s) - 1) |-> IF j < i THEN s[j] ELSE s[j + 1]]

MapDeleteHead(m, v) == IF m # <<>> THEN RemoveAt(m, 1) ELSE m

\* disconnect: the loop deletes the first entry whose id is the socket, then breaks
MapDeleteFirst(m, v) ==
  IF \E i \in 1..Len(m) : m[i].id = v
  THEN RemoveAt(m, CHOOSE i \in 1..Len(m) :
                     m[i].id = v /\ \A j \in 1..(i - 1) : m[j].id # v)
  ELSE m

\* ---- events ----
\* to: the socket the event is emitted to; data: its payload
Ev(to, type, data) == [to |-> to, type |-> type, data |-> data]

\* the events a handler emits, each tagged with the invocation that emitted it
By(k, evs) == [j \in 1..Len(evs) |-> [to |-> evs[j].to, type |-> evs[j].type,
                                      data |-> evs[j].data, by |-> k]]

\* catch (err) { socket.emit('error', err.message) }
StoreError(s) == <<Ev(s, "error", [message |-> "store"])>>

\* ---- database schema ----
\* ON CONFLICT (email) of server.js needs unique indexes on otp_requests.email
\* and users.email; ON CONFLICT (zeus_pin) of part_000 needs one on
\* users.zeus_pin.  Whether invites (from_pin, to_pin), friendships
\* (user1_pin, user2_pin) and, for server.js, users.zeus_pin carry a unique
\* index is not decided by the source: each deployment is a behaviour of the
\* program.  (A unique index on users.email under part_000 only makes the
\* upsert throw, which every query may do anyway.)
Schemas(i) ==
  [invitesUnique : BOOLEAN, friendshipsUnique : BOOLEAN,
   pinUnique : IF i = "part0" THEN {TRUE} ELSE BOOLEAN]

\* ---- connection lifecycle ----
\* (socket ids are fresh names: the sockets connect in the order of their ids)
Connect(s) ==
  /\ sock[s] = "new"
  /\ \A r \in Sockets : r < s => sock[r] # "new"
  /\ sock' = [sock EXCEPT ![s] = "open"]
  /\ emitted' = <<>>
  /\ UNCHANGED <<impl, schema, now, activeUsers, db, tasks, nEvents, superseded, nSent>>

Disconnect(s) ==
  /\ sock[s] = "open"
  /\ sock' = [sock EXCEPT ![s] = "closed"]
  /\ activeUsers' = MapDeleteFirst(activeUsers, s)
  /\ emitted' = <<>>
  /\ UNCHANGED <<impl, schema, now, db, tasks, nEvents, superseded, nSent>>

Tick ==
  /\ now < MaxTime
  /\ now' = now + 1
  /\ emitted' = <<>>
  /\ UNCHANGED <<impl, schema, sock, activeUsers, db, tasks, nEvents, superseded, nSent>>

\* a socket event arrives on open socket s and its handler runs to the first
\* await (it takes the first free slot: slots only name the invocations in flight)
Start(t, s) ==
  /\ tasks[t] = Idle
  /\ \A u \in Slots : u < t => tasks[u] # Idle
  /\ sock[s] = "open"
  /\ nEvents < MaxEvents
  /\ nEvents' = nEvents + 1
  /\ emitted' = <<>>
  /\ UNCHANGED <<impl, schema, now, sock, activeUsers, db, nSent, superseded>>

FailBroadcast(t) ==
  /\ tasks' = [tasks EXCEPT ![t] = Idle]
  /\ emitted' = [s \in 1..Cardinality(Sockets) |-> Ev(s, "error", [message |-> "store"])]

FailSilent(t) ==
  /\ tasks' = [tasks EXCEPT ![t] = Idle]
  /\ emitted' = <<>>

\* the awaited query throws: the catch block reports to the requesting socket
Fail(t) ==
  /\ tasks' = [tasks EXCEPT ![t] = Idle]
  /\ emitted' = StoreError(tasks[t].sock)

\* ---- register ----
\* server.js takes {zeusPin, name, about}, part_000 takes {zeusPin, name, email}
RegisterEmails(i) == IF i = "server" THEN {"undefined"} ELSE Emails

StartRegister(t) ==
  \E s \in Sockets, p \in Pins, n \in Names, e \in RegisterEmails(impl) :
    /\ Start(t, s)
    /\ tasks' =
         [tasks EXCEPT ![t] =
            [op |-> "register", pc |-> "upsert", sock |-> s, zeusPin |-> p,
             name |-> n, email |-> e]]

\* server.js: UPDATE users SET name = $2, about = $3 WHERE zeus_pin = $1 RETURNING *
UpdateProfile(us, p, n) ==
  {IF u.zeus_pin = p THEN [u EXCEPT !.name = n] ELSE u : u \in us}

\* part_000: INSERT INTO users (zeus_pin, name, email) ... ON CONFLICT (zeus_pin)
\* DO UPDATE SET name = $2, email = $3
UpsertByPin(us, p, n, e) ==
  {u \in us : u.zeus_pin # p} \cup {[zeus_pin |-> p, email |-> e, name |-> n]}

RegisterQuery(us, i, p, n, e) ==
  IF i = "server" THEN UpdateProfile(us, p, n) ELSE UpsertByPin(us, p, n, e)

\* history of the Map: socket s no longer counts as superseded on pin p once it
\* sets p itself; the socket whose entry for p is replaced by another one does
\* (recorded while that socket is connected)
Supersede(h, m, st, p, s) ==
  (h \ {<<p, s>>})
    \cup (IF MapGet(m, p) \notin {NoSocket, s} /\ st[MapGet(m, p)] = "open"
          THEN {<<p, MapGet(m, p)>>} ELSE {})

\* (replaced, in the event: the socket the Map held for the pin before the set;
\* it is no part of the payload and is kept for the properties)
RegisterStep(t) ==
  LET k == tasks[t] IN
  /\ k.op = "register"
  /\ \/ /\ users' = RegisterQuery(users, impl, k.zeusPin, k.name, k.email)
        /\ activeUsers' = MapSet(activeUsers, k.zeusPin, k.sock)
        /\ tasks' = [tasks EXCEPT ![t] = Idle]
        /\ emitted' = By(k, <<Ev(k.sock, "registered",
                                  [zeusPin |-> k.zeusPin,
                                   replaced |-> MapGet(activeUsers, k.zeusPin)])>>)
        /\ superseded' = Supersede(superseded, activeUsers, sock, k.zeusPin, k.sock)
     \/ /\ Fail(t)
        /\ UNCHANGED <<users, activeUsers, superseded>>
  /\ UNCHANGED <<impl, schema, now, sock, otp_requests, invites, friendships,
                 messages, nEvents, nSent>>

\* ---- requestOTP ----
\* the handler draws the code and computes expiresAt before it awaits the store
StartRequestOTP(t) ==
  /\ impl = "server"
  /\ \E s \in Sockets, e \in Emails, o \in Otps :
       /\ Start(t, s)
       /\ tasks' =
            [tasks EXCEPT ![t] =
               [op |-> "requestOTP", pc |-> "upsert", sock |-> s,
                email |-> e, otp |-> o, expiresAt |-> now + OtpTtl]]

\* the codes the table holds for an address
StoredOtps(rows, e) == {r.otp : r \in {q \in rows : q.email = e}}

InsertOtp(rows, e, o, x) ==
  rows \cup {[email |-> e, otp |-> o, expires_at |-> x]}

\* INSERT INTO otp_requests ... ON CONFLICT (email) DO UPDATE SET otp = $2, expires_at = $3
UpsertOtp(rows, e, o, x) ==
  {r \in rows : r.email # e} \cup {[email |-> e, otp |-> o, expires_at |-> x]}

\* (replaced, in the event: the codes the table held for the address before the
\* upsert; it is no part of the payload and is kept for the properties)
RequestOTPStep(t) ==
  LET k == tasks[t] IN
  /\ k.op = "requestOTP"
  /\ \/ /\ otp_requests' = UpsertOtp(otp_requests, k.email, k.otp, k.expiresAt)
        /\ tasks' = [tasks EXCEPT ![t] = Idle]
        /\ emitted' = By(k, <<Ev(k.sock, "otpSent",
                                  [email |-> k.email,
                                   replaced |-> StoredOtps(otp_requests, k.email)])>>)
     \/ /\ Fail(t)
        /\ UNCHANGED otp_requests
  /\ UNCHANGED <<impl, schema, now, sock, activeUsers, users, invites,
                 friendships, messages, nEvents, superseded, nSent>>

\* ---- verifyOTP ----
StartVerifyOTP(t) ==
  /\ impl = "server"
  /\ \E s \in Sockets, e \in Emails, o \in Otps :
       /\ Start(t, s)
       /\ tasks' =
            [tasks EXCEPT ![t] =
               [op |-> "verifyOTP", pc |-> "select", sock |-> s, email |-> e,
                otp |-> o]]

SelectOtpNoExpiry(rows, e, o, clock) ==
  {r \in rows : r.email = e /\ r.otp = o}

\* SELECT * FROM otp_requests WHERE email = $1 AND otp = $2 AND expires_at > NOW()
SelectOtp(rows, e, o, clock) ==
  {r \in rows : r.email = e /\ r.otp = o /\ r.expires_at > clock}

\* after the SELECT: reject, or draw a Zeus-PIN and issue the INSERT
\* (wrote, set by the INSERT step: userResult differs from what the table held)
VerifySelectStep(t) ==
  LET k == tasks[t] IN
  /\ k.op = "verifyOTP" /\ k.pc = "select"
  /\ \/ /\ SelectOtp(otp_requests, k.email, k.otp, now) = {}
        /\ tasks' = [tasks EXCEPT ![t] = Idle]
        /\ emitted' = By(k, <<Ev(k.sock, "otpError", [message |-> "Invalid or expired OTP"])>>)
     \/ /\ SelectOtp(otp_requests, k.email, k.otp, now) # {}
        /\ \E p \in Pins :
             tasks' = [tasks EXCEPT ![t] =
                         [op |-> "verifyOTP", pc |-> "insert", sock |-> k.sock,
                          email |-> k.email, otp |-> k.otp, zeusPin |-> p]]
        /\ emitted' = <<>>
     \/ Fail(t)
  /\ UNCHANGED <<impl, schema, now, sock, activeUsers, db, nEvents, superseded, nSent>>

\* INSERT INTO users (zeus_pin, email, verified_at) ... ON CONFLICT (email)
\* DO UPDATE SET zeus_pin = $1, verified_at = NOW() RETURNING *
PinTaken(us, p, e) == \E u \in us : u.zeus_pin = p /\ u.email # e

UserRow(us, p, e) ==
  IF \E u \in us : u.email = e
  THEN [(CHOOSE u \in us : u.email = e) EXCEPT !.zeus_pin = p]
  ELSE [zeus_pin |-> p, email |-> e, name |-> NoName]

UpsertByEmail(us, p, e) == {u \in us : u.email # e} \cup {UserRow(us, p, e)}

VerifyInsertStep(t) ==
  LET k == tasks[t] IN
  /\ k.op = "verifyOTP" /\ k.pc = "insert"
  /\ \/ /\ ~(schema.pinUnique /\ PinTaken(users, k.zeusPin, k.email))
        /\ users' = UpsertByEmail(users, k.zeusPin, k.email)
        /\ tasks' = [tasks EXCEPT ![t] =
                       [op |-> "verifyOTP", pc |-> "delete", sock |-> k.sock,
                        email |-> k.email, otp |-> k.otp, zeusPin |-> k.zeusPin,
                        wrote |-> (UpsertByEmail(users, k.zeusPin, k.email) # users)]]
        /\ emitted' = <<>>
     \/ /\ Fail(t)
        /\ UNCHANGED users
  /\ UNCHANGED <<impl, schema, now, sock, activeUsers, otp_requests, invites,
                 friendships, messages, nEvents, superseded, nSent>>

\* DELETE FROM otp_requests WHERE email = $1
DeleteOtp(rows, e) == {r \in rows : r.email # e}

VerifyDeleteStep(t) ==
  LET k == tasks[t] IN
  /\ k.op = "verifyOTP" /\ k.pc = "delete"
  /\ \/ /\ otp_requests' = DeleteOtp(otp_requests, k.email)
        /\ tasks' = [tasks EXCEPT ![t] = Idle]
        /\ emitted' = By(k, <<Ev(k.sock, "otpVerified",
                           [zeus_pin |-> k.zeusPin, email |-> k.email])>>)
     \/ /\ Fail(t)
        /\ UNCHANGED otp_requests
  /\ UNCHANGED <<impl, schema, now, sock, activeUsers, users, invites,
                 friendships, messages, nEvents, superseded, nSent>>

\* ---- addContact ----
\* (a client names another identity: fromPin # toPin in the inputs drawn here)
StartAddContact(t) ==
  \E s \in Sockets, f \in Pins : \E p \in Pins \ {f} :
    /\ Start(t, s)
    /\ tasks' =
         [tasks EXCEPT ![t] =
            [op |-> "addContact", pc |-> "select", sock |-> s, fromPin |-> f,
             toPin |-> p]]

SelectUserAny(us, p) == us

\* SELECT id FROM users WHERE zeus_pin = $1
SelectUser(us, p) == {u \in us : u.zeus_pin = p}

AddContactSelectStep(t) ==
  LET k == tasks[t] IN
  /\ k.op = "addContact" /\ k.pc = "select"
  /\ \/ /\ SelectUser(users, k.toPin) = {}
        /\ tasks' = [tasks EXCEPT ![t] = Idle]
        /\ emitted' = By(k, <<Ev(k.sock, "error",
                           [message |-> "Recipient Zeus-PIN not found"])>>)
     \/ /\ SelectUser(users, k.toPin) # {}
        /\ tasks' = [tasks EXCEPT ![t] = [k EXCEPT !.pc = "insert"]]
        /\ emitted' = <<>>
     \/ Fail(t)
  /\ UNCHANGED <<impl, schema, now, sock, activeUsers, db, nEvents, superseded, nSent>>

\* INSERT INTO invites (from_pin, to_pin, status) VALUES ($1, $2, 'pending')
\* server.js adds ON CONFLICT DO NOTHING, part_000 does not
HasInvite(rows, f, p) ==
  \E i \in 1..Len(rows) : rows[i].from_pin = f /\ rows[i].to_pin = p

InsertInviteThrows(rows, i, sc, f, p) ==
  i = "part0" /\ sc.invitesUnique /\ HasInvite(rows, f, p)

InsertInvite(rows, i, sc, f, p) ==
  IF sc.invitesUnique /\ HasInvite(rows, f, p)
  THEN rows
  ELSE Append(rows, [from_pin |-> f, to_pin |-> p, status |-> "pending"])

\* if (toSocketId) io.to(toSocketId).emit('inviteReceived', { fromPin, toPin })
NotifyInvite(m, f, p) ==
  IF MapGet(m, p) # NoSocket
  THEN <<Ev(MapGet(m, p), "inviteReceived", [fromPin |-> f, toPin |-> p])>>
  ELSE <<>>

AddContactInsertStep(t) ==
  LET k == tasks[t] IN
  /\ k.op = "addContact" /\ k.pc = "insert"
  /\ \/ /\ ~InsertInviteThrows(invites, impl, schema, k.fromPin, k.toPin)
        /\ invites' = InsertInvite(invites, impl, schema, k.fromPin, k.toPin)
        /\ tasks' = [tasks EXCEPT ![t] = Idle]
        /\ emitted' = By(k, NotifyInvite(activeUsers, k.fromPin, k.toPin)
                        \o <<Ev(k.sock, "inviteSent", [toPin |-> k.toPin])>>)
     \/ /\ Fail(t)
        /\ UNCHANGED invites
  /\ UNCHANGED <<impl, schema, now, sock, activeUsers, otp_requests, users,
                 friendships, messages, nEvents, superseded, nSent>>

\* ---- acceptInvite ----
StartAcceptInvite(t) ==
  \E s \in Sockets, f \in Pins : \E p \in Pins \ {f} :
    /\ Start(t, s)
    /\ tasks' =
         [tasks EXCEPT ![t] =
            [op |-> "acceptInvite", pc |-> "update", sock |-> s,
             fromPin |-> f, toPin |-> p]]

\* UPDATE invites SET status = 'accepted' WHERE from_pin = $2 AND to_pin = $3
AcceptInvites(rows, f, p) ==
  [i \in 1..Len(rows) |->
     IF rows[i].from_pin = f /\ rows[i].to_pin = p
     THEN [rows[i] EXCEPT !.status = "accepted"] ELSE rows[i]]

AcceptUpdateStep(t) ==
  LET k == tasks[t] IN
  /\ k.op = "acceptInvite" /\ k.pc = "update"
  /\ \/ /\ invites' = AcceptInvites(invites, k.fromPin, k.toPin)
        /\ tasks' = [tasks EXCEPT ![t] = [k EXCEPT !.pc = "insert"]]
        /\ emitted' = <<>>
     \/ /\ Fail(t)
        /\ UNCHANGED invites
  /\ UNCHANGED <<impl, schema, now, sock, activeUsers, otp_requests, users,
                 friendships, messages, nEvents, superseded, nSent>>

\* INSERT INTO friendships (user1_pin, user2_pin) VALUES ($1, $2)
\* server.js adds ON CONFLICT DO NOTHING, part_000 does not
HasFriendship(rows, a, b) ==
  \E i \in 1..Len(rows) : rows[i].user1_pin = a /\ rows[i].user2_pin = b

InsertFriendshipThrows(rows, i, sc, a, b) ==
  i = "part0" /\ sc.friendshipsUnique /\ HasFriendship(rows, a, b)

InsertFriendship(rows, i, sc, a, b) ==
  IF sc.friendshipsUnique /\ HasFriendship(rows, a, b)
  THEN rows
  ELSE Append(rows, [user1_pin |-> a, user2_pin |-> b])

\* if (fromSocketId) ...emit('friendAdded', { toPin });
\* if (toSocketId) ...emit('friendAdded', { fromPin })
NotifyFriends(m, f, p) ==
  (IF MapGet(m, f) # NoSocket
   THEN <<Ev(MapGet(m, f), "friendAdded", [toPin |-> p])>> ELSE <<>>)
  \o (IF MapGet(m, p) # NoSocket
      THEN <<Ev(MapGet(m, p), "friendAdded", [fromPin |-> f])>> ELSE <<>>)

AcceptInsertStep(t) ==
  LET k == tasks[t] IN
  /\ k.op = "acceptInvite" /\ k.pc = "insert"
  /\ \/ /\ ~InsertFriendshipThrows(friendships, impl, schema, k.fromPin, k.toPin)
        /\ friendships' = InsertFriendship(friendships, impl, schema,
                                           k.fromPin, k.toPin)
        /\ tasks' = [tasks EXCEPT ![t] = Idle]
        /\ emitted' = By(k, NotifyFriends(activeUsers, k.fromPin, k.toPin)
                        \o <<Ev(k.sock, "inviteAccepted",
                                [fromPin |-> k.fromPin, toPin |-> k.toPin])>>)
     \/ /\ Fail(t)
        /\ UNCHANGED friendships
  /\ UNCHANGED <<impl, schema, now, sock, activeUsers, otp_requests, users,
                 invites, messages, nEvents, superseded, nSent>>

\* ---- sendMessage ----
StartSendMessage(t) ==
  \E s \in Sockets, f \in Pins, c \in Contents, l \in Ttls : \E p \in Pins \ {f} :
    /\ Start(t, s)
    /\ tasks' =
         [tasks EXCEPT ![t] =
            [op |-> "sendMessage", pc |-> "select", sock |-> s,
             fromPin |-> f, toPin |-> p, message |-> c, ttl |-> l]]

\* SELECT * FROM friendships WHERE (user1_pin = $1 AND user2_pin = $2)
\*                              OR (user1_pin = $2 AND user2_pin = $1)
AreRelatedUnchecked(rows, a, b) == TRUE

AreRelatedOrdered(rows, a, b) ==
  \E i \in 1..Len(rows) : rows[i].user1_pin = a /\ rows[i].user2_pin = b

AreRelated(rows, a, b) ==
  \E i \in 1..Len(rows) :
    \/ rows[i].user1_pin = a /\ rows[i].user2_pin = b
    \/ rows[i].user1_pin = b /\ rows[i].user2_pin = a

SendSelectStep(t) ==
  LET k == tasks[t] IN
  /\ k.op = "sendMessage" /\ k.pc = "select"
  /\ \/ /\ ~AreRelated(friendships, k.fromPin, k.toPin)
        /\ tasks' = [tasks EXCEPT ![t] = Idle]
        /\ emitted' = By(k, <<Ev(k.sock, "error",
                           [message |-> "You must be friends to send messages"])>>)
     \/ /\ AreRelated(friendships, k.fromPin, k.toPin)
        /\ tasks' = [tasks EXCEPT ![t] = [k EXCEPT !.pc = "insert"]]
        /\ emitted' = <<>>
     \/ Fail(t)
  /\ UNCHANGED <<impl, schema, now, sock, activeUsers, db, nEvents, superseded, nSent>>

\* INSERT INTO messages (from_pin, to_pin, content, ttl, created_at) ...
InsertMessageTwice(rows, f, p, c, l) ==
  rows \o << [from_pin |-> f, to_pin |-> p, content |-> c, ttl |-> l],
             [from_pin |-> f, to_pin |-> p, content |-> c, ttl |-> l] >>

InsertMessage(rows, f, p, c, l) ==
  Append(rows, [from_pin |-> f, to_pin |-> p, content |-> c, ttl |-> l])

\* server.js puts messageId: msgResult.rows[0].id in the payload, part_000 does not
Delivery(i, f, c, l, id) ==
  IF i = "server"
  THEN [fromPin |-> f, message |-> c, ttl |-> l, messageId |-> id]
  ELSE [fromPin |-> f, message |-> c, ttl |-> l]

Deliver(m, i, f, p, c, l, id) ==
  IF MapGet(m, p) # NoSocket
  THEN <<Ev(MapGet(m, p), "messageReceived", Delivery(i, f, c, l, id))>>
  ELSE <<>>

SendInsertStep(t) ==
  LET k == tasks[t] IN
  /\ k.op = "sendMessage" /\ k.pc = "insert"
  /\ \/ /\ messages' = InsertMessage(messages, k.fromPin, k.toPin, k.message, k.ttl)
        /\ tasks' = [tasks EXCEPT ![t] = Idle]
        /\ emitted' = By(k, Deliver(activeUsers, impl, k.fromPin, k.toPin, k.message,
                              k.ttl, Len(messages) + 1)
                        \o <<Ev(k.sock, "messageSent",
                                [toPin |-> k.toPin, message |-> k.message])>>)
        /\ nSent' = nSent + 1
     \/ /\ Fail(t)
        /\ UNCHANGED <<messages, nSent>>
  /\ UNCHANGED <<impl, schema, now, sock, activeUsers, otp_requests, users,
                 invites, friendships, nEvents, superseded>>

\* ---- specifications ----
\* The database outlives the server process: a process starts with an empty
\* activeUsers Map and with the rows earlier processes have written.
Fresh ==
  /\ now = 0
  /\ sock = [s \in Sockets |-> "new"]
  /\ activeUsers = <<>>
  /\ otp_requests = {}
  /\ invites = <<>>
  /\ friendships = <<>>
  /\ messages = <<>>
  /\ tasks = [t \in Slots |-> Idle]
  /\ emitted = <<>>
  /\ nEvents = 0
  /\ nSent = 0
  /\ superseded = {}

\* users verified by earlier runs
Verified == {[zeus_pin |-> "ZT-1", email |-> "a@x", name |-> NoName]}

Init ==
  /\ impl \in {"server", "part0"}
  /\ schema \in Schemas(impl)
  /\ users \in {{}, Verified}
  /\ Fresh

Lifecycle ==
  \/ \E s \in Sockets : Connect(s)
  \/ \E s \in Sockets : Disconnect(s)

Register ==
  \/ \E t \in Slots : StartRegister(t)
  \/ \E t \in Slots : RegisterStep(t)

RequestOTP ==
  \/ \E t \in Slots : StartRequestOTP(t)
  \/ \E t \in Slots : RequestOTPStep(t)

VerifyOTP ==
  \/ \E t \in Slots : StartVerifyOTP(t)
  \/ \E t \in Slots : VerifySelectStep(t)
  \/ \E t \in Slots : VerifyInsertStep(t)
  \/ \E t \in Slots : VerifyDeleteStep(t)

AddContact ==
  \/ \E t \in Slots : StartAddContact(t)
  \/ \E t \in Slots : AddContactSelectStep(t)
  \/ \E t \in Slots : AddContactInsertStep(t)

AcceptInvite ==
  \/ \E t \in Slots : StartAcceptInvite(t)
  \/ \E t \in Slots : AcceptUpdateStep(t)
  \/ \E t \in Slots : AcceptInsertStep(t)

SendMessage ==
  \/ \E t \in Slots : StartSendMessage(t)
  \/ \E t \in Slots : SendSelectStep(t)
  \/ \E t \in Slots : SendInsertStep(t)

\* every handler of the program
Next ==
  \/ Lifecycle
  \/ Tick
  \/ Register
  \/ RequestOTP
  \/ VerifyOTP
  \/ AddContact
  \/ AcceptInvite
  \/ SendMessage

Spec == Init /\ [][Next]_vars

\* Message routing: clients that register, accept invites and send messages.
\* The handlers left out write neither friendships, messages nor activeUsers.
InitSend ==
  /\ impl \in {"server", "part0"}
  /\ schema \in {sc \in Schemas(impl) : sc.invitesUnique /\ sc.pinUnique}
  /\ users = {}
  /\ Fresh

NextSend ==
  \/ Lifecycle
  \/ Register
  \/ AcceptInvite
  \/ SendMessage

SpecSend == InitSend /\ [][NextSend]_vars

\* Relationship management: clients that register, invite and accept.
InitInvite ==
  /\ impl \in {"server", "part0"}
  /\ schema \in {sc \in Schemas(impl) : sc.pinUnique}
  /\ users \in {{}, Verified}
  /\ Fresh

NextInvite ==
  \/ Lifecycle
  \/ Register
  \/ AddContact
  \/ AcceptInvite

SpecInvite == InitInvite /\ [][NextInvite]_vars

\* Identity issuance: clients that request and verify one-time codes
\* (server.js only; part_000 has no OTP handlers).
InitOtp ==
  /\ impl = "server"
  /\ schema \in {sc \in Schemas(impl) : sc.invitesUnique /\ sc.friendshipsUnique}
  /\ users \in {{}, Verified}
  /\ Fresh

NextOtp ==
  \/ Lifecycle
  \/ Tick
  \/ RequestOTP
  \/ VerifyOTP

SpecOtp == InitOtp /\ [][NextOtp]_vars

\* All handlers of both variants, on a database that carries every unique
\* index and holds one verified user.
InitAll ==
  /\ impl \in {"server", "part0"}
  /\ schema \in {sc \in Schemas(impl) :
                   sc.invitesUnique /\ sc.friendshipsUnique /\ sc.pinUnique}
  /\ users = Verified
  /\ Fresh

\* Every query returns or throws: a handler in flight takes its next step
\* (weak fairness of Step in SpecLive).
Step(t) ==
  \/ RegisterStep(t)
  \/ RequestOTPStep(t)
  \/ VerifySelectStep(t)
  \/ VerifyInsertStep(t)
  \/ VerifyDeleteStep(t)
  \/ AddContactSelectStep(t)
  \/ AddContactInsertStep(t)
  \/ AcceptUpdateStep(t)
  \/ AcceptInsertStep(t)
  \/ SendSelectStep(t)
  \/ SendInsertStep(t)

\* (the clock stands still: expiry is the business of SpecOtp)
NextAll ==
  \/ Lifecycle
  \/ Register
  \/ RequestOTP
  \/ VerifyOTP
  \/ AddContact
  \/ AcceptInvite
  \/ SendMessage

SpecAll == InitAll /\ [][NextAll]_vars

\* One client at work on that database: socket 1 is connected, socket 2 has
\* come and gone before the first event.
InitLive ==
  /\ impl \in {"server", "part0"}
  /\ schema \in {sc \in Schemas(impl) :
                   sc.invitesUnique /\ sc.friendshipsUnique /\ sc.pinUnique}
  /\ users = Verified
  /\ now = 0
  /\ sock = <<"open", "closed">>
  /\ activeUsers = <<>>
  /\ otp_requests = {}
  /\ invites = <<>>
  /\ friendships = <<>>
  /\ messages = <<>>
  /\ tasks = [t \in Slots |-> Idle]
  /\ emitted = <<>>
  /\ nEvents = 0
  /\ nSent = 0
  /\ superseded = {}

NextLive ==
  \/ \E s \in Sockets : Disconnect(s)
  \/ Register
  \/ RequestOTP
  \/ VerifyOTP
  \/ AddContact
  \/ AcceptInvite
  \/ SendMessage

SpecLive == InitLive /\ [][NextLive]_vars /\ \A t \in Slots : WF_vars(Step(t))

\* ======================= properties =======================

\* a friendships row joins a and b, in either column order
Linked(a, b) ==
  \E i \in 1..Len(friendships) :
    {friendships[i].user1_pin, friendships[i].user2_pin} = {a, b}

\* number of events of a type among the events of one step
Count(evs, type) == Cardinality({j \in 1..Len(evs) : evs[j].type = type})

\* the task in slot t ran in this step
Ran(t) == tasks[t] # Idle /\ tasks'[t] # tasks[t]

\* ---- C1 ----
C1_State ==
  /\ \A i \in 1..Len(messages) : Linked(messages[i].from_pin, messages[i].to_pin)
  /\ \A j \in 1..Len(emitted) :
       emitted[j].type = "messageReceived" =>
         /\ messages # <<>>
         /\ messages[Len(messages)].from_pin = emitted[j].data.fromPin
         /\ Linked(emitted[j].data.fromPin, messages[Len(messages)].to_pin)

C1_Reject ==
  \A t \in Slots :
    (/\ Ran(t)
     /\ tasks[t].op = "sendMessage"
     /\ tasks[t].pc = "select"
     /\ ~Linked(tasks[t].fromPin, tasks[t].toPin))
    => /\ tasks'[t] = Idle
       /\ messages' = messages
       /\ Len(emitted') = 1
       /\ emitted'[1].type = "error"
       /\ emitted'[1].to = tasks[t].sock

\* C1: every persisted message and every messageReceived event is between two
\* pins joined by a friendships row (in either order), and a sendMessage between
\* unrelated pins ends with one error event to the sender and no new message.
C1_SendOnlyBetweenRelated == [] C1_State /\ [][C1_Reject]_vars

\* a send between unrelated pins was rejected, its recipient being bound
C1_Witness ==
  /\ Len(emitted) = 1
  /\ emitted[1].type = "error"
  /\ emitted[1].data.message = "You must be friends to send messages"
  /\ emitted[1].to = emitted[1].by.sock
  /\ MapGet(activeUsers, emitted[1].by.toPin) # NoSocket
  /\ messages = <<>>

\* ---- C2 ----
C2_Step ==
  /\ Count(emitted', "messageSent") = Len(messages') - Len(messages)
  /\ Count(emitted', "messageSent") = nSent' - nSent
  /\ Count(emitted', "messageSent") <= 1
  /\ Count(emitted', "messageReceived") <= Count(emitted', "messageSent")

\* C2: every step that emits a messageSent acknowledgement inserts exactly one
\* message row, no other step inserts one, with or without a binding of the
\* recipient; so the number of rows equals the number of acknowledgements.
C2_OneMessagePerAck == [] (Len(messages) = nSent) /\ [][C2_Step]_vars

\* a send to a recipient without a binding was acknowledged and persisted
C2_Witness ==
  /\ Len(emitted) = 1
  /\ emitted[1].type = "messageSent"
  /\ Len(messages) = 1
  /\ MapGet(activeUsers, messages[1].to_pin) = NoSocket
  /\ activeUsers # <<>>

\* ---- C3 ----
C3_Decision ==
  \A t \in Slots :
    (Ran(t) /\ tasks[t].op = "sendMessage" /\ tasks[t].pc = "select"
       /\ tasks'[t] # Idle)
    => Linked(tasks[t].toPin, tasks[t].fromPin)

\* C3: the friendship check gives the same answer for (a, b) and (b, a) in
\* every reachable state, and a send that passes the check is between pins
\* joined by a row in one order or the other.
C3_AreRelatedSymmetric ==
  /\ [] (\A a \in Pins, b \in Pins :
           AreRelated(friendships, a, b) <=> AreRelated(friendships, b, a))
  /\ [][C3_Decision]_vars

\* a message went from b to a while the only friendships row is (a, b)
C3_Witness ==
  /\ Len(friendships) = 1
  /\ friendships[1].user1_pin # friendships[1].user2_pin
  /\ Len(messages) = 1
  /\ messages[1].from_pin = friendships[1].user2_pin
  /\ messages[1].to_pin = friendships[1].user1_pin

\* ---- C4 ----
\* the events of the step hold an otpVerified event
Verified1 == Count(emitted', "otpVerified") = 1

\* C4: a one-time code is single-use: a verifyOTP succeeds only while the
\* address still has a code to consume, so of several verifications of one
\* issued code one succeeds.  (Within MaxEvents = 3 two verifications leave
\* room for one requestOTP, so no new code is issued in between.)
C4_SingleUse ==
  [][\A t \in Slots :
       (Ran(t) /\ tasks[t].op = "verifyOTP" /\ Verified1)
       => \E r \in otp_requests : r.email = tasks[t].email]_vars

\* ---- C5 ----
\* the stored code of the address equals the supplied one and has not expired
ValidCode(e, o) ==
  \E r \in otp_requests : r.email = e /\ r.otp = o /\ now < r.expires_at

C5_Success(t) ==
  /\ (tasks[t].pc = "select" /\ tasks'[t] # Idle)
       => ValidCode(tasks[t].email, tasks[t].otp)
  /\ (tasks[t].pc = "select" /\ ~ValidCode(tasks[t].email, tasks[t].otp))
       => tasks'[t] = Idle /\ users' = users
  /\ Verified1 => tasks[t].pc = "delete"

Bound(p) == MapGet(activeUsers, p)

\* the socket an event of a step was pushed to is the one bound to the pin it is for
C6_Deliveries ==
  \A j \in 1..Len(emitted) :
    /\ emitted[j].type \in {"messageReceived", "inviteReceived"}
         => emitted[j].to = Bound(emitted[j].by.toPin)
    /\ emitted[j].type = "friendAdded"
         => emitted[j].to \in {Bound(emitted[j].by.toPin), Bound(emitted[j].by.fromPin)}

C6_Rebind ==
  /\ \A t \in Slots :
       (Ran(t) /\ tasks[t].op = "register" /\ Count(emitted', "registered") = 1)
       => MapGet(activeUsers', tasks[t].zeusPin) = tasks[t].sock
  /\ \A p \in Pins :
       MapGet(activeUsers', p) # Bound(p)
       => \/ \E t \in Slots :
               /\ Ran(t) /\ tasks[t].op = "register" /\ tasks[t].zeusPin = p
               /\ MapGet(activeUsers', p) = tasks[t].sock
          \/ /\ MapGet(activeUsers', p) = NoSocket
             /\ sock[Bound(p)] = "open" /\ sock'[Bound(p)] = "closed"

\* C6: activeUsers holds at most one entry per pin; a completed register binds
\* the pin to the registering socket whatever it was bound to; the binding of a
\* pin changes only by a register of that pin or by the disconnect of the bound
\* socket; and every pushed event goes to the socket bound at that moment.
C6_LastRegisterWins ==
  /\ [] (\A i \in 1..Len(activeUsers), j \in 1..Len(activeUsers) :
           activeUsers[i].pin = activeUsers[j].pin => i = j)
  /\ [] C6_Deliveries
  /\ [][C6_Rebind]_vars

\* socket 2 registered a pin that was bound to socket 1, which is still open
C6_Witness ==
  /\ Len(emitted) = 1
  /\ emitted[1].type = "registered"
  /\ emitted[1].to = 2
  /\ emitted[1].data.replaced = 1
  /\ sock[1] = "open"
  /\ Bound(emitted[1].data.zeusPin) = 2
  /\ Len(activeUsers) = 1

\* ---- C7 ----
InviteRows(f, p) ==
  {i \in 1..Len(invites) : invites[i].from_pin = f /\ invites[i].to_pin = p}

\* C7: at most one invites row exists per ordered pair (from_pin, to_pin).
C7_OneInvitePerPair ==
  \A f \in Pins, p \in Pins : Cardinality(InviteRows(f, p)) <= 1

\* ---- C8 ----
FriendshipRows(a, b) ==
  {i \in 1..Len(friendships) :
     {friendships[i].user1_pin, friendships[i].user2_pin} = {a, b}}

\* C8: at most one friendships row exists per unordered pair of pins.
C8_OneFriendshipPerPair ==
  \A a \in Pins, b \in Pins : Cardinality(FriendshipRows(a, b)) <= 1

\* ---- C9 ----
HasIdentity(p) == \E u \in users : u.zeus_pin = p

C9_Step ==
  \A t \in Slots :
    (/\ Ran(t)
     /\ tasks[t].op = "addContact"
     /\ tasks[t].pc = "select"
     /\ ~HasIdentity(tasks[t].toPin))
    => /\ tasks'[t] = Idle
       /\ invites' = invites
       /\ Len(emitted') = 1
       /\ emitted'[1].type = "error"
       /\ emitted'[1].to = tasks[t].sock
       /\ emitted'[1].data.message \in {"Recipient Zeus-PIN not found", "store"}

\* C9: an addContact whose toPin has no users row ends with one error event to
\* the sender (Recipient Zeus-PIN not found, or the driver's message when the
\* SELECT itself throws), no inviteReceived event and the invites unchanged;
\* so every invites row names a to_pin that has a users row.
C9_InviteUnknownRecipient ==
  /\ [] (\A i \in 1..Len(invites) : HasIdentity(invites[i].to_pin))
  /\ [][C9_Step]_vars

\* an invite to a pin without identity was refused, although the pin is bound
\* to a socket and another identity exists
C9_Witness ==
  /\ Len(emitted) = 1
  /\ emitted[1].type = "error"
  /\ emitted[1].data.message = "Recipient Zeus-PIN not found"
  /\ emitted[1].to = emitted[1].by.sock
  /\ Bound(emitted[1].by.toPin) # NoSocket
  /\ users # {}
  /\ invites = <<>>

\* ---- C10 ----
C10_Step ==
  \A t \in Slots :
    (Ran(t) /\ tasks[t].op = "register" /\ ~HasIdentity(tasks[t].zeusPin))
    => /\ Len(emitted') = 1
       /\ emitted'[1].type = "error"
       /\ activeUsers' = activeUsers
       /\ users' = users

\* C10: a register for a pin without users row ends with an error event, binds
\* nothing and creates no users row; so every bound pin has a users row.
C10_RegisterNeedsIdentity ==
  /\ [] (\A i \in 1..Len(activeUsers) : HasIdentity(activeUsers[i].pin))
  /\ [][C10_Step]_vars

\* ---- C11 ----
AcceptedInvite(a, b) ==
  \E i \in 1..Len(invites) :
    /\ invites[i].status = "accepted"
    /\ \/ invites[i].from_pin = a /\ invites[i].to_pin = b
       \/ invites[i].from_pin = b /\ invites[i].to_pin = a

C11_Step ==
  \A t \in Slots :
    (/\ Ran(t)
     /\ tasks[t].op = "acceptInvite"
     /\ ~HasInvite(invites', tasks[t].fromPin, tasks[t].toPin))
    => friendships' = friendships

\* C11: every friendships row joins two pins that have an accepted invites row
\* in one direction or the other, and an acceptInvite that matches no invites
\* row leaves friendships unchanged.
C11_RelationshipNeedsAcceptedInvite ==
  /\ [] (\A i \in 1..Len(friendships) :
           AcceptedInvite(friendships[i].user1_pin, friendships[i].user2_pin))
  /\ [][C11_Step]_vars

\* ---- C12 ----
Received(evs) == {j \in 1..Len(evs) : evs[j].type = "messageReceived"}

C12_Step ==
  \A t \in Slots :
    (/\ Ran(t)
     /\ tasks[t].op = "sendMessage"
     /\ Count(emitted', "messageSent") = 1)
    => IF Bound(tasks[t].toPin) # NoSocket
       THEN /\ Cardinality(Received(emitted')) = 1
            /\ \A j \in Received(emitted') :
                 /\ emitted'[j].to = Bound(tasks[t].toPin)
                 /\ emitted'[j].data.fromPin = tasks[t].fromPin
                 /\ emitted'[j].data.message = tasks[t].message
                 /\ emitted'[j].data.ttl = tasks[t].ttl
                 /\ "messageId" \in DOMAIN emitted'[j].data
                 /\ emitted'[j].data.messageId = Len(messages')
       ELSE Received(emitted') = {}

\* C12: a sendMessage that is acknowledged pushes, when the recipient pin is
\* bound, exactly one messageReceived event, to the socket bound to the pin,
\* carrying the sender pin, the content, the ttl and the id of the stored
\* row; when the pin is not bound it pushes none and is acknowledged all the same.
C12_DeliveryToBoundRecipient == [][C12_Step]_vars

\* ---- C13 ----
C13_Request ==
  \A t \in Slots :
    (Ran(t) /\ tasks[t].op = "requestOTP" /\ Count(emitted', "otpSent") = 1)
    => {r \in otp_requests' : r.email = tasks[t].email}
         = {[email |-> tasks[t].email, otp |-> tasks[t].otp,
             expires_at |-> tasks[t].expiresAt]}

C13_Verify ==
  \A t \in Slots :
    (Ran(t) /\ tasks[t].op = "verifyOTP" /\ tasks[t].pc = "select")
    => /\ (\A r \in otp_requests : r.email = tasks[t].email => r.otp # tasks[t].otp)
            => /\ tasks'[t] = Idle
               /\ Len(emitted') = 1
               /\ emitted'[1].type \in {"otpError", "error"}
       /\ ValidCode(tasks[t].email, tasks[t].otp)
            => Count(emitted', "otpError") = 0

\* C13: otp_requests holds at most one row per address; a requestOTP that is
\* acknowledged leaves its own code as the only code of the address, whatever
\* the table held before; a verifyOTP with a code other than the stored one is
\* rejected, and one with the stored code within its lifetime is not.
C13_LatestCodeSupersedes ==
  /\ [] (\A r \in otp_requests, q \in otp_requests : r.email = q.email => r = q)
  /\ [][C13_Request /\ C13_Verify]_vars

\* a requestOTP replaced a different code of the same address
C13_Witness ==
  /\ Len(emitted) = 1
  /\ emitted[1].type = "otpSent"
  /\ emitted[1].data.replaced # {}
  /\ emitted[1].by.otp \notin emitted[1].data.replaced
  /\ StoredOtps(otp_requests, emitted[1].by.email) = {emitted[1].by.otp}

\* ---- C14 ----
\* C14: identities are never deleted: a pin that has a users row has one in
\* every later state.
C14_IdentityPersists ==
  [][\A p \in Pins : HasIdentity(p) => \E u \in users' : u.zeus_pin = p]_vars

\* ---- C15 ----
C15_Step ==
  \A t \in Slots :
    (/\ Ran(t)
     /\ tasks[t].op = "verifyOTP"
     /\ tasks[t].pc = "insert"
     /\ schema.pinUnique
     /\ \E u \in users : u.zeus_pin = tasks[t].zeusPin /\ u.email # tasks[t].email)
    => tasks'[t] # Idle

\* C15: no two users rows share a zeus_pin, and a verifyOTP whose generated pin
\* is already in use does not end there as a failed verification (the
\* generation is retried).
C15_PinsUnique ==
  /\ [] (\A u \in users, v \in users : u.zeus_pin = v.zeus_pin => u = v)
  /\ [][C15_Step]_vars

\* ---- C16 ----
InFlight(s) == \E t \in Slots : tasks[t] # Idle /\ tasks[t].sock = s

Bindings(s) == {i \in 1..Len(activeUsers) : activeUsers[i].id = s}

\* C16: a socket that has disconnected and has no handler in flight is named
\* by no entry of activeUsers, and every socket is named by at most one entry.
C16_NoBindingAfterDisconnect ==
  \A s \in Sockets :
    /\ (sock[s] = "closed" /\ ~InFlight(s)) => Bindings(s) = {}
    /\ Cardinality(Bindings(s)) <= 1

\* ---- C18 ----
\* C18: the handlers of one socket run one after the other: no two invocations
\* in flight belong to the same socket.
C18_SerializedPerSocket ==
  \A t \in Slots, u \in Slots :
    (t # u /\ tasks[t] # Idle /\ tasks[u] # Idle) => tasks[t].sock # tasks[u].sock

\* ---- C20 ----
C20_Step ==
  \A s \in Sockets :
    (sock[s] = "open" /\ sock'[s] = "closed")
    => /\ \A p \in Pins : Bound(p) # s => MapGet(activeUsers', p) = Bound(p)
       /\ db' = db

\* C20: a disconnect leaves every activeUsers entry of another socket in place,
\* in particular the entry p -> c2 when the disconnecting socket c1 had set p
\* before c2 did, and it changes no table.
C20_DisconnectKeepsNewerSession == [][C20_Step]_vars

\* socket 1 has disconnected after socket 2 replaced its entry for a pin, and
\* the pin is bound to socket 2
C20_Witness ==
  /\ sock = <<"closed", "open">>
  /\ emitted = <<>>
  /\ \E p \in Pins : <<p, 1>> \in superseded /\ Bound(p) = 2

\* ---- C17 ----
\* the step of slot t ended in the catch block of the handler
Caught(t) ==
  /\ Ran(t)
  /\ \E j \in 1..Len(emitted') :
       emitted'[j].type = "error" /\ emitted'[j].data.message = "store"

C17_Step ==
  \A t \in Slots :
    Caught(t)
    => /\ Len(emitted') = 1
       /\ emitted'[1].to = tasks[t].sock
       /\ activeUsers' = activeUsers
       /\ sock' = sock
       /\ tasks'[t] = Idle
       /\ \A u \in Slots \ {t} : tasks'[u] = tasks[u]

\* C17: a handler whose query throws emits one error event, to the requesting
\* socket and to no other, leaves activeUsers as it is, frees its slot and
\* touches neither the sockets nor the other handlers in flight.
C17_ErrorsScopedToRequester == [][C17_Step]_vars

\* a query failed for socket 1 while socket 2 is connected and bound
C17_Witness ==
  /\ emitted = StoreError(1)
  /\ sock[2] = "open"
  /\ \E p \in Pins : Bound(p) = 2

\* ---- C19 ----
Terminal ==
  {"otpSent", "otpVerified", "otpError", "registered", "inviteSent",
   "inviteAccepted", "messageSent", "error"}

Outcomes(op) ==
  CASE op = "requestOTP" -> {"otpSent", "error"}
    [] op = "verifyOTP" -> {"otpVerified", "otpError", "error"}
    [] op = "register" -> {"registered", "error"}
    [] op = "addContact" -> {"inviteSent", "error"}
    [] op = "acceptInvite" -> {"inviteAccepted", "error"}
    [] op = "sendMessage" -> {"messageSent", "error"}

C19_Step ==
  \A t \in Slots :
    Ran(t)
    => IF tasks'[t] = Idle
       THEN \E j \in 1..Len(emitted') :
              /\ emitted'[j].type \in Outcomes(tasks[t].op)
              /\ emitted'[j].to = tasks[t].sock
              /\ \A i \in 1..Len(emitted') :
                   emitted'[i].type \in Terminal => i = j
       ELSE emitted' = <<>>

\* C19: every handler invocation comes to its end (each query returning or
\* throwing), and it emits exactly one terminal event, in its last step and to
\* the requesting socket: the success event of its action or a failure event.
C19_OneTerminalEvent ==
  /\ [][C19_Step]_vars
  /\ \A t \in Slots : (tasks[t] # Idle) ~> (tasks[t] = Idle)

\* an acceptInvite ended: its socket got friendAdded and the one inviteAccepted
C19_Witness ==
  /\ Len(emitted) >= 2
  /\ \A j \in 1..Len(emitted) : emitted[j].to = emitted[j].by.sock
  /\ Count(emitted, "friendAdded") >= 1
  /\ Count(emitted, "inviteAccepted") = 1
====
